---------------------------- MODULE Spec2Model ----------------------------
(***************************************************************************)
(* A model of clippy-ai: the Model Client (app/shared/llm.ts), the command *)
(* router (app/shared/command.ts, CommandProcessor) and the turn loop of   *)
(* the chat window (app/renderer/components/Chat.tsx), with the mount of   *)
(* the window and what it keeps in localStorage.                           *)
(*                                                                         *)
(* Text is a sequence of strings.  Text a user types, text on the          *)
(* clipboard and text the endpoint generates is a sequence of one-         *)
(* character strings, so that trim, startsWith, split, join and the        *)
(* regular expression of /calc are computed character by character.  A     *)
(* literal of the source (a template's fixed part) is one element holding  *)
(* the literal.  Concatenation is \o.                                      *)
(***************************************************************************)
EXTENDS Integers, Sequences, FiniteSets, TLC

VARIABLES
    apiKey,       \* llm.ts API_KEY: the credential read once at module load
    clipApi,      \* navigator.clipboard && navigator.clipboard.readText
    call,         \* the runCommandOrChat / chat call in progress and its trace
    messages,     \* Chat.tsx state: the conversation history
    inputText,    \* Chat.tsx state: the text of the input box
    loading,      \* Chat.tsx state: the busy flag
    error,        \* Chat.tsx state: the error banner (Null when none)
    promptStyle,  \* Chat.tsx state: the selected prompt style
    now,          \* the value Date.now() returns
    stored,       \* localStorage: what is under the keys of the history
                  \* and of the prompt style
    mount         \* the position of Chat's mount and what its effects queued

vars == <<apiKey, clipApi, call, messages, inputText, loading, error,
          promptStyle, now, stored, mount>>

-----------------------------------------------------------------------------
(* Bounds of the model. *)

MaxExprLen == 3     \* the longest generated /calc expression
MaxClock == 1       \* the last reading of the clock
MaxMessages == 3    \* the longest conversation history

-----------------------------------------------------------------------------
(* Strings. *)

\* The characters String.prototype.trim removes and the class \s matches
\* (the ones the model's alphabets hold).
WhiteSpace == {" ", "\t", "\n"}

RECURSIVE TrimStart(_)
TrimStart(s) ==
    IF s = <<>> THEN <<>>
    ELSE IF Head(s) \in WhiteSpace THEN TrimStart(Tail(s))
    ELSE s

RECURSIVE TrimEnd(_)
TrimEnd(s) ==
    IF s = <<>> THEN <<>>
    ELSE IF s[Len(s)] \in WhiteSpace THEN TrimEnd(SubSeq(s, 1, Len(s) - 1))
    ELSE s

\* String.prototype.trim
Trim(s) == TrimEnd(TrimStart(s))

\* String.prototype.startsWith
StartsWith(s, p) == Len(s) >= Len(p) /\ SubSeq(s, 1, Len(p)) = p

\* String.prototype.includes
Includes(s, p) ==
    \E i \in 1..(Len(s) - Len(p) + 1) : SubSeq(s, i, i + Len(p) - 1) = p

\* String.prototype.split(' '): the pieces between single spaces, empty
\* pieces included.
RECURSIVE SplitFrom(_, _, _)
SplitFrom(s, i, cur) ==
    IF i > Len(s) THEN <<cur>>
    ELSE IF s[i] = " " THEN <<cur>> \o SplitFrom(s, i + 1, <<>>)
    ELSE SplitFrom(s, i + 1, Append(cur, s[i]))

Split(s) == SplitFrom(s, 1, <<>>)

\* Array.prototype.join(' ')
RECURSIVE Join(_)
Join(parts) ==
    IF parts = <<>> THEN <<>>
    ELSE IF Len(parts) = 1 THEN parts[1]
    ELSE parts[1] \o <<" ">> \o Join(Tail(parts))

\* String.prototype.toLowerCase, on the letters the inputs use.
LowerOf(c) ==
    CASE c = "A" -> "a"
      [] c = "B" -> "b"
      [] c = "C" -> "c"
      [] c = "D" -> "d"
      [] c = "E" -> "e"
      [] c = "F" -> "f"
      [] c = "G" -> "g"
      [] c = "H" -> "h"
      [] c = "I" -> "i"
      [] c = "J" -> "j"
      [] c = "K" -> "k"
      [] c = "L" -> "l"
      [] c = "M" -> "m"
      [] c = "N" -> "n"
      [] c = "O" -> "o"
      [] c = "P" -> "p"
      [] c = "Q" -> "q"
      [] c = "R" -> "r"
      [] c = "S" -> "s"
      [] c = "T" -> "t"
      [] c = "U" -> "u"
      [] c = "V" -> "v"
      [] c = "W" -> "w"
      [] c = "X" -> "x"
      [] c = "Y" -> "y"
      [] c = "Z" -> "z"
      [] OTHER -> c

ToLowerCase(s) == [i \in 1..Len(s) |-> LowerOf(s[i])]

\* A literal of the source, character by character.
Chars(str) ==
    CASE str = "" -> <<>>
      [] str = " " -> <<" ">>
      [] str = "hi" -> <<"h", "i">>
      [] str = " hi " -> <<" ", "h", "i", " ">>
      [] str = "/help" -> <<"/", "h", "e", "l", "p">>
      [] str = "/open" -> <<"/", "o", "p", "e", "n">>
      [] str = "/calc" -> <<"/", "c", "a", "l", "c">>
      [] str = "/calculate" -> <<"/", "c", "a", "l", "c", "u", "l", "a", "t", "e">>
      [] str = "/clipboard" -> <<"/", "c", "l", "i", "p", "b", "o", "a", "r", "d">>
      [] str = "http://" -> <<"h", "t", "t", "p", ":", "/", "/">>
      [] str = "https://" -> <<"h", "t", "t", "p", "s", ":", "/", "/">>
      [] str = "help" -> <<"h", "e", "l", "p">>
      [] str = "open" -> <<"o", "p", "e", "n">>
      [] str = "calc" -> <<"c", "a", "l", "c">>
      [] str = "calculate" -> <<"c", "a", "l", "c", "u", "l", "a", "t", "e">>
      [] str = "clipboard" -> <<"c", "l", "i", "p", "b", "o", "a", "r", "d">>


-----------------------------------------------------------------------------
(* Numbers.  A JavaScript number the calculator can produce is a signed    *)
(* magnitude n/d (zero keeps its sign, as in IEEE 754), an infinity or     *)
(* NaN.  Only dyadic magnitudes are kept (EvalDiv reports anything else as *)
(* outside the model), so the rational arithmetic below is exact where     *)
(* the double arithmetic of the engine is.                                 *)

Digits == {"0", "1", "2", "3", "4", "5", "6", "7", "8", "9"}

DigitValue(c) ==
    CASE c = "0" -> 0 [] c = "1" -> 1 [] c = "2" -> 2 [] c = "3" -> 3
      [] c = "4" -> 4 [] c = "5" -> 5 [] c = "6" -> 6 [] c = "7" -> 7
      [] c = "8" -> 8 [] c = "9" -> 9

DigitChar(n) ==
    CASE n = 0 -> "0" [] n = 1 -> "1" [] n = 2 -> "2" [] n = 3 -> "3"
      [] n = 4 -> "4" [] n = 5 -> "5" [] n = 6 -> "6" [] n = 7 -> "7"
      [] n = 8 -> "8" [] n = 9 -> "9"

RECURSIVE Gcd(_, _)
Gcd(a, b) == IF b = 0 THEN a ELSE Gcd(b, a % b)

Abs(x) == IF x < 0 THEN -x ELSE x

Fin(s, n, d) ==
    LET g == IF n = 0 THEN d ELSE Gcd(n, d)
    IN  [k |-> "fin", s |-> s, n |-> n \div g, d |-> d \div g]

Inf(s) == [k |-> "inf", s |-> s, n |-> 0, d |-> 1]

NaN == [k |-> "nan", s |-> 1, n |-> 0, d |-> 1]

NumNeg(a) == IF a.k = "nan" THEN NaN ELSE [a EXCEPT !.s = -a.s]

NumAdd(a, b) ==
    IF a.k = "nan" \/ b.k = "nan" THEN NaN
    ELSE IF a.k = "inf" /\ b.k = "inf" THEN (IF a.s = b.s THEN a ELSE NaN)
    ELSE IF a.k = "inf" THEN a
    ELSE IF b.k = "inf" THEN b
    ELSE LET t == a.s * a.n * b.d + b.s * b.n * a.d
         IN  IF t = 0
             THEN Fin(IF a.n = 0 /\ b.n = 0 /\ a.s = -1 /\ b.s = -1 THEN -1 ELSE 1, 0, 1)
             ELSE Fin(IF t < 0 THEN -1 ELSE 1, Abs(t), a.d * b.d)

NumSub(a, b) == NumAdd(a, NumNeg(b))

NumMul(a, b) ==
    IF a.k = "nan" \/ b.k = "nan" THEN NaN
    ELSE IF a.k = "inf" \/ b.k = "inf"
         THEN (IF (a.k = "fin" /\ a.n = 0) \/ (b.k = "fin" /\ b.n = 0)
               THEN NaN ELSE Inf(a.s * b.s))
    ELSE Fin(a.s * b.s, a.n * b.n, a.d * b.d)

NumDiv(a, b) ==
    IF a.k = "nan" \/ b.k = "nan" THEN NaN
    ELSE IF a.k = "inf" THEN (IF b.k = "inf" THEN NaN ELSE Inf(a.s * b.s))
    ELSE IF b.k = "inf" THEN Fin(a.s * b.s, 0, 1)
    ELSE IF b.n = 0 THEN (IF a.n = 0 THEN NaN ELSE Inf(a.s * b.s))
    ELSE Fin(a.s * b.s, a.n * b.d, a.d * b.n)

\* A value the model does not compute (it is not Exact).
Outside == [k |-> "fin", s |-> 1, n |-> 1, d |-> 3]

RECURSIVE NumPowNat(_, _)
NumPowNat(a, n) == IF n = 0 THEN [k |-> "fin", s |-> 1, n |-> 1, d |-> 1]
                   ELSE NumMul(a, NumPowNat(a, n - 1))

\* a ** b, for a small finite base and a small whole exponent.
NumPow(a, b) ==
    IF a.k # "fin" \/ b.k # "fin" \/ b.d # 1 \/ b.n > 5 \/ a.n > 16 \/ a.d > 16
    THEN Outside
    ELSE IF b.n = 0 \/ b.s = 1 THEN NumPowNat(a, b.n)
    ELSE NumDiv(NumPowNat(a, 0), NumPowNat(a, b.n))

\* A variant of the test that lets the infinities through.
IsNotNaN(a) == a.k # "nan"

\* isFinite(result), result a number
IsFinite(a) == a.k = "fin"

PowersOfTwo == {1, 2, 4, 8, 16, 32, 64, 128, 256, 512, 1024}

\* The values whose arithmetic and whose printed form the model has exactly.
Exact(a) == a.k # "fin" \/ a.d \in PowersOfTwo

RECURSIVE NatText(_)
NatText(n) ==
    IF n < 10 THEN <<DigitChar(n)>>
    ELSE Append(NatText(n \div 10), DigitChar(n % 10))

\* The digits of frac / d after the decimal point, d a power of two.
RECURSIVE FracText(_, _)
FracText(frac, d) ==
    IF frac = 0 THEN <<>>
    ELSE <<DigitChar((frac * 10) \div d)>> \o FracText((frac * 10) % d, d)

\* Number::toString of a finite number (the `${result}` of calculate).
NumberText(a) ==
    LET sign == IF a.s = -1 /\ a.n # 0 THEN <<"-">> ELSE <<>>
        whole == NatText(a.n \div a.d)
        frac == a.n % a.d
    IN  sign \o whole \o (IF frac = 0 THEN <<>> ELSE <<".">> \o FracText(frac, a.d))

-----------------------------------------------------------------------------
(* The evaluator of /calc: Function(`"use strict"; return (${expression})`)() *)
(* on text the regular expression let through.  The program text is        *)
(* "(" expression ")".  It is cut into tokens as the engine cuts it, and   *)
(* the tokens are evaluated with an operator stack and a value stack:      *)
(* unary + and - bind tighter than * and /, which bind tighter than binary *)
(* + and -, and binary operators of one level group to the left.  The      *)
(* result is                                                               *)
(*   st = "ok"     the value v                                             *)
(*   st = "throw"  the engine throws (a SyntaxError when the text is no    *)
(*                 expression, a TypeError when it calls a number)         *)
(*   st = "unsup"  the text uses syntax this model does not evaluate: a    *)
(*                 decimal point, a comment, a regular expression literal, *)
(*                 a power beyond NumPow, or a quotient that is not dyadic *)

Ok(v) == [st |-> "ok", v |-> v]
Throws == [st |-> "throw", v |-> NaN]
Unsup == [st |-> "unsup", v |-> NaN]

At(p, i) == IF i >= 1 /\ i <= Len(p) THEN p[i] ELSE "<eof>"

RECURSIVE Skip(_, _)
Skip(p, i) == IF At(p, i) \in WhiteSpace THEN Skip(p, i + 1) ELSE i

RECURSIVE DigitsEnd(_, _)
DigitsEnd(p, i) == IF At(p, i) \in Digits THEN DigitsEnd(p, i + 1) ELSE i

RECURSIVE DigitsValue(_, _, _)
DigitsValue(p, i, j) ==
    IF i >= j THEN 0
    ELSE DigitsValue(p, i, j - 1) * 10 + DigitValue(p[j - 1])

Token(t, v) == [t |-> t, v |-> v]

\* The tokens of p from index i on, after the tokens acc.  A literal that
\* strict mode forbids (01, 08) is the token "bad"; ++ and -- are the token
\* "++"; ** is the exponentiation operator; unsup says that the text holds
\* syntax outside the model.
RECURSIVE Tokenize(_, _, _)
Tokenize(p, i, acc) ==
    LET j == Skip(p, i)
        c == At(p, j)
        e == DigitsEnd(p, j)
    IN  IF j > Len(p) THEN [unsup |-> FALSE, toks |-> acc]
        ELSE IF c \in Digits
        THEN IF At(p, e) = "." THEN [unsup |-> TRUE, toks |-> acc]
             ELSE IF e - j > 1 /\ c = "0"
             THEN Tokenize(p, e, Append(acc, Token("bad", NaN)))
             ELSE Tokenize(p, e, Append(acc, Token("num", Fin(1, DigitsValue(p, j, e), 1))))
        ELSE IF c = "."
        THEN [unsup |-> TRUE, toks |-> acc]
        ELSE IF c \in {"+", "-"} /\ At(p, j + 1) = c
        THEN Tokenize(p, j + 2, Append(acc, Token("++", NaN)))
        ELSE IF c = "*" /\ At(p, j + 1) = "*"
        THEN Tokenize(p, j + 2, Append(acc, Token("**", NaN)))
        ELSE IF c = "/" /\ At(p, j + 1) \in {"/", "*"}
        THEN [unsup |-> TRUE, toks |-> acc]
        ELSE Tokenize(p, j + 1, Append(acc, Token(c, NaN)))

\* The operator stack holds "(", the binary operators and the unary
\* operators "u+" and "u-".
Prec(op) ==
    CASE op = "(" -> 0
      [] op \in {"+", "-"} -> 1
      [] op \in {"*", "/"} -> 2
      [] op \in {"u+", "u-"} -> 3
      [] op = "**" -> 4

Pop(stack) == SubSeq(stack, 1, Len(stack) - 1)
Top(stack) == stack[Len(stack)]

\* The operator on top of the stack applied to the values on top.
ApplyTop(ops, vals) ==
    LET op == Top(ops)
        b == Top(vals)
        a == Top(Pop(vals))
    IN  CASE op = "u+" -> vals
          [] op = "u-" -> Append(Pop(vals), NumNeg(b))
          [] op = "+" -> Append(Pop(Pop(vals)), NumAdd(a, b))
          [] op = "-" -> Append(Pop(Pop(vals)), NumSub(a, b))
          [] op = "*" -> Append(Pop(Pop(vals)), NumMul(a, b))
          [] op = "/" -> Append(Pop(Pop(vals)), NumDiv(a, b))
          [] op = "**" -> Append(Pop(Pop(vals)), NumPow(a, b))

\* Apply the operators on top of the stack that bind at least as tightly
\* as level.
RECURSIVE Reduce(_, _, _)
Reduce(ops, vals, level) ==
    IF ops = <<>> \/ Prec(Top(ops)) < level
    THEN [exact |-> TRUE, ops |-> ops, vals |-> vals]
    ELSE LET next == ApplyTop(ops, vals)
         IN  IF ~Exact(Top(next))
             THEN [exact |-> FALSE, ops |-> ops, vals |-> vals]
             ELSE Reduce(Pop(ops), next, level)

\* The value of the tokens from index i on; operand: whether an operand is
\* due (the start, after an operator, after "(").  ** groups to the right,
\* and a unary operator directly in front of its left operand is a
\* SyntaxError.
RECURSIVE Shunt(_, _, _, _, _)
Shunt(toks, i, ops, vals, operand) ==
    LET t == toks[i].t
        r == Reduce(ops, vals, IF i > Len(toks) \/ t = ")" THEN 1
                               ELSE IF t = "**" THEN 5 ELSE Prec(t))
    IN  IF i > Len(toks)
        THEN IF operand THEN Throws
             ELSE IF ~r.exact THEN Unsup
             ELSE IF r.ops # <<>> THEN Throws
             ELSE Ok(Top(r.vals))
        ELSE IF operand
        THEN CASE t = "num" -> Shunt(toks, i + 1, ops, Append(vals, toks[i].v), FALSE)
               [] t = "(" -> Shunt(toks, i + 1, Append(ops, "("), vals, TRUE)
               [] t = "+" -> Shunt(toks, i + 1, Append(ops, "u+"), vals, TRUE)
               [] t = "-" -> Shunt(toks, i + 1, Append(ops, "u-"), vals, TRUE)
               [] t = "/" -> Unsup        \* a regular expression literal
               [] OTHER -> Throws
        ELSE CASE t \in {"+", "-", "*", "/"} ->
                    IF ~r.exact THEN Unsup
                    ELSE Shunt(toks, i + 1, Append(r.ops, t), r.vals, TRUE)
               [] t = "**" ->
                    IF ops # <<>> /\ Top(ops) \in {"u+", "u-"} THEN Throws
                    ELSE Shunt(toks, i + 1, Append(ops, t), vals, TRUE)
               [] t = ")" ->
                    IF ~r.exact THEN Unsup
                    ELSE IF r.ops = <<>> THEN Throws
                    ELSE Shunt(toks, i + 1, Pop(r.ops), r.vals, FALSE)
               [] OTHER -> Throws

\* Function(`"use strict"; return (${expression})`)()
Evaluate(expression) ==
    LET tk == Tokenize(<<"(">> \o expression \o <<")">>, 1, <<>>)
    IN  IF tk.unsup THEN Unsup ELSE Shunt(tk.toks, 1, <<>>, <<>>, TRUE)

-----------------------------------------------------------------------------
(* Values shared by the Model Client and the router. *)

\* A field that is absent (undefined), or the null of the error state.
Undefined == <<"<undefined>">>
Null == <<"<null>">>

\* A JavaScript string used as a condition: defined and not empty.
Truthy(text) == text # Undefined /\ text # Null /\ text # <<>>

\* How a call ended: it returned a text, or it threw an Error with a message.
Returned(text) == [kind |-> "text", val |-> text]
Threw(message) == [kind |-> "throw", val |-> message]
NoOutcome == [kind |-> "none", val |-> <<>>]

UserMessage(content) == [role |-> "user", content |-> content]

\* The call record: where the call of runCommandOrChat (or of chat, when it
\* is called directly) stands, its arguments, and what it has done so far.
\*   pc        "idle", "clip" (awaiting navigator.clipboard.readText()),
\*             "fetch" (awaiting fetch) or "done"
\*   origin    who made the outermost call
\*   command   the command and args the arguments processInput has parsed
\*   cmd       the CommandResult of processInput
\*   opening   what window.open came to ("none": it was not called)
\*   shellLog  the URLs the os.openExternal handler handed to the shell
\*   chatLog   the calls of chat, fetchLog the requests handed to fetch,
\*   openLog   the URLs handed to window.open, evalLog the texts handed to
\*             the Function constructor, clipReads the clipboard reads
\*   clipRead  what the clipboard read came to, resp what fetch came to
\*   signal    whether the caller of chat gave opts.signal
\*   timer     the timeout timer of chat: "none", "armed" or "cleared"
\*   timers    how many timers chat has created
\*   chatRet   how the call of chat ended, result how the outermost call did
NoCommand ==
    [isCommand |-> FALSE, response |-> Undefined, error |-> Undefined,
     shouldContinueToLLM |-> FALSE, clipboardContent |-> Undefined]

NewCall(origin, input, system, history, userMessage) ==
    [pc |-> "idle", origin |-> origin, input |-> input, system |-> system,
     history |-> history, userMessage |-> userMessage, cmd |-> NoCommand,
     command |-> <<>>, args |-> <<>>,
     chatLog |-> <<>>, fetchLog |-> <<>>, openLog |-> <<>>, opening |-> "none",
     evalLog |-> <<>>, shellLog |-> <<>>,
     clipReads |-> 0, clipRead |-> [t |-> "none", s |-> <<>>], signal |-> FALSE,
     timer |-> "none", timers |-> 0, resp |-> [t |-> "none"],
     chatRet |-> NoOutcome, result |-> NoOutcome]

NoCall == NewCall("none", <<>>, <<>>, <<>>, Undefined)

-----------------------------------------------------------------------------
(* The Model Client: app/shared/llm.ts *)

ApiKeys == {"<undefined>", "", "sk-test"}

\* !API_KEY
KeyMissing(key) == key \in {"<undefined>", ""}

MissingKeyMessage ==
    <<"Missing VITE_OPENAI_API_KEY. Add it to your .env file (see .env.example).">>

EmptyResponseMessage == <<"Empty response from model.">>

\* A variant that sends a system message for the empty prompt as well.
PayloadMessagesAlwaysSystem(system, chatMessages) ==
    <<[role |-> "system", content |-> system]>> \o chatMessages

\* payloadMessages: the system prompt first, when it is not empty.
PayloadMessages(system, chatMessages) ==
    (IF system # <<>> THEN <<[role |-> "system", content |-> system]>> ELSE <<>>)
        \o chatMessages

\* What fetch and the reading of the response body can come to.
\*   ok       a 2xx response whose body parses; content is
\*            data?.choices?.[0]?.message?.content
\*   badjson  a 2xx response whose body does not parse
\*   http     a response that is not ok, with its status and body
\*   neterr   fetch rejects (the network failed)
\*   abort    fetch rejects because the signal aborted
ContentUndefined == [t |-> "undefined", s |-> <<>>]
ContentNumber == [t |-> "number", s |-> <<>>]
ContentString(s) == [t |-> "string", s |-> s]

NetOk(content) == [t |-> "ok", content |-> content, status |-> "200", body |-> "json", detail |-> <<>>]
NetBadJson == [t |-> "badjson", content |-> ContentUndefined, status |-> "200", body |-> "text", detail |-> <<>>]
NetHttp(status, body, detail) ==
    [t |-> "http", content |-> ContentUndefined, status |-> status, body |-> body, detail |-> detail]
NetError == [t |-> "neterr", content |-> ContentUndefined, status |-> "", body |-> "", detail |-> <<>>]
NetAbort == [t |-> "abort", content |-> ContentUndefined, status |-> "", body |-> "", detail |-> <<>>]

\* llm.ts 96-107: the error of a response that is not ok.  body is "message"
\* (the body parses and holds error.message), "json" (it parses and holds no
\* error.message: JSON.stringify(json)) or "text" (it does not parse:
\* response.json() has consumed the body, so the response.text() of the
\* catch block rejects with a TypeError and no status error is built).
HttpError(resp) ==
    IF resp.body = "text"
    THEN Threw(<<"TypeError: body stream already read">>)
    ELSE Threw(<<"OpenAI ", resp.status, " ", "<statusText>">>
               \o (IF resp.detail # <<>> THEN <<" - ">> \o resp.detail ELSE <<>>))

\* A variant whose empty test does not trim the content.
ExtractTextUntrimmed(content) ==
    IF content.t # "string" \/ content.s = <<>>
    THEN Threw(EmptyResponseMessage)
    ELSE Returned(Trim(content.s))

\* A variant that returns the trimmed content without the empty test.
ExtractTextUnchecked(content) ==
    IF content.t = "string" THEN Returned(Trim(content.s)) ELSE Returned(<<>>)

\* llm.ts 109-116: the success path.
TextOf(content) == IF content.t = "undefined" THEN ContentString(<<>>) ELSE content

ExtractText(content) ==
    LET text == TextOf(content)
    IN  IF text.t # "string" \/ Trim(text.s) = <<>>
        THEN Threw(EmptyResponseMessage)
        ELSE Returned(Trim(text.s))

\* llm.ts 80-116: what chat comes to once fetch has settled.
ChatOutcome(resp) ==
    CASE resp.t = "ok" -> ExtractText(resp.content)
      [] resp.t = "badjson" -> Threw(<<"SyntaxError: Unexpected token in JSON">>)
      [] resp.t = "http" -> HttpError(resp)
      [] resp.t = "neterr" -> Threw(<<"Failed to fetch">>)
      [] resp.t = "abort" -> Threw(<<"The user aborted a request.">>)

\* A variant of the guard that lets the empty key through.
AssertApiKeyUndefinedOnly(key) == key = "<undefined>"

\* assertApiKey: whether the guard at the head of chat throws.
AssertApiKeyThrows(key) == KeyMissing(key)

\* The outermost call is over.
Finish(c, out) == [c EXCEPT !.pc = "done", !.result = out]

\* command.ts 62 and 72-73: what runCommandOrChat makes of the outcome of its
\* call of chat.  Ordinary chat returns the text as it is; the clipboard
\* summary is put after the acknowledgement; an error is not caught.
RouterAfterChat(c, out) ==
    IF ~c.cmd.isCommand THEN out
    ELSE IF out.kind = "text"
         THEN Returned(c.cmd.response \o <<"\n\n">> \o out.val)
         ELSE out

\* A variant that clears the timer only when chat returns a text.
ChatExitClearingOnSuccess(c, out) ==
    LET c1 == [c EXCEPT !.chatRet = out,
                        !.timer = IF @ = "armed" /\ out.kind = "text"
                                  THEN "cleared" ELSE @]
    IN  IF c.origin \in {"chat", "oneShot"}
        THEN Finish(c1, out)
        ELSE Finish(c1, RouterAfterChat(c1, out))

\* llm.ts 72-73: the signal handed to fetch is the caller's when there is
\* one, and otherwise that of the controller the timer of 76-78 aborts.
FetchSignal(signal) == IF signal THEN "caller" ELSE "internal"

\* llm.ts 117-119 and the return to the caller of chat.
ChatExit(c, out) ==
    LET c1 == [c EXCEPT !.chatRet = out,
                        !.timer = IF @ = "armed" THEN "cleared" ELSE @]
    IN  IF c.origin \in {"chat", "oneShot"}
        THEN Finish(c1, out)
        ELSE Finish(c1, RouterAfterChat(c1, out))

\* llm.ts 54-94: chat up to the await of fetch.
EnterChat(c, key, system, chatMessages, signal) ==
    LET c1 == [c EXCEPT !.chatLog =
                   Append(@, [system |-> system, messages |-> chatMessages])]
    IN  IF AssertApiKeyThrows(key)
        THEN ChatExit(c1, Threw(MissingKeyMessage))
        ELSE [c1 EXCEPT
                !.pc = "fetch",
                !.fetchLog = Append(@, [authorization |-> key,
                                        messages |-> PayloadMessages(system, chatMessages),
                                        signal |-> FetchSignal(signal)]),
                !.signal = signal,
                !.timer = IF signal THEN "none" ELSE "armed",
                !.timers = IF signal THEN @ ELSE @ + 1]

-----------------------------------------------------------------------------
(* The command router: app/shared/command.ts, class CommandProcessor *)

\* The marker in front of an error text (the cross mark emoji and a space).
ErrorMark == "(x) "

HelpText == <<"**Clippy AI Commands:** /open <url> /clipboard /calc <expression> /help">>

ClipboardAck == <<"**Summarizing clipboard content...**">>

SummaryPrompt(clipboardContent) ==
    <<"Please provide a concise summary of this clipboard content:\n\n">>
        \o clipboardContent

CommandResponse(text) ==
    [isCommand |-> TRUE, response |-> text, error |-> Undefined,
     shouldContinueToLLM |-> FALSE, clipboardContent |-> Undefined]

CommandError(text) ==
    [isCommand |-> TRUE, response |-> Undefined, error |-> text,
     shouldContinueToLLM |-> FALSE, clipboardContent |-> Undefined]

\* What a command that needs no await did: its CommandResult, the URLs it
\* handed to window.open and the texts it handed to the Function constructor.
Did(cmd, opened, evaluated) ==
    [cmd |-> cmd, opened |-> opened, evaluated |-> evaluated]

\* showHelp
ShowHelp == Did(CommandResponse(HelpText), <<>>, <<>>)

\* A variant that takes only https:// for a scheme.
NormalizeUrlHttpsOnly(args) ==
    IF ~StartsWith(Join(args), Chars("https://"))
    THEN Chars("https://") \o Join(args)
    ELSE Join(args)

\* openWebsite 160-165: the URL handed to window.open
NormalizeUrl(args) ==
    LET url == Join(args)
    IN  IF ~StartsWith(url, Chars("http://")) /\ ~StartsWith(url, Chars("https://"))
        THEN Chars("https://") \o url
        ELSE url

\* What window.open(url, '_blank') comes to: a window, null (the window was
\* not opened: blocked or denied) or an exception.
OpenOutcomes == {"window", "null", "throws"}

\* openWebsite; opening: what window.open comes to.  Its return value is
\* not looked at, so null ends as a window does.
OpenWebsite(args, opening) ==
    IF Len(args) = 0
    THEN Did(CommandError(<<"Please provide a URL. Example: /open https://google.com">>),
             <<>>, <<>>)
    ELSE LET url == NormalizeUrl(args)
         IN  IF opening = "throws"
             THEN Did(CommandError(<<"Failed to open URL: ", "<error.message>">>),
                      <<url>>, <<>>)
             ELSE Did(CommandResponse(<<"Opened: ">> \o url), <<url>>, <<>>)

\* calculate 197: /^[0-9+\-*/().\s]+$/.test(expression)
AllowedChar(c) == c \in Digits \cup {"+", "-", "*", "/", "(", ")", "."} \cup WhiteSpace

SafetyCheck(expression) ==
    Len(expression) >= 1 /\ \A i \in 1..Len(expression) : AllowedChar(expression[i])

InvalidExpression(expression) ==
    CommandError(<<"Invalid math expression: \"">> \o expression \o <<"\"">>)

\* calculate
Calculate(args) ==
    IF Len(args) = 0
    THEN Did(CommandError(<<"Please provide a math expression. Example: /calc 2 + 2">>),
             <<>>, <<>>)
    ELSE LET expression == Join(args)
         IN  IF ~SafetyCheck(expression)
             THEN Did(InvalidExpression(expression), <<>>, <<>>)
             ELSE LET r == Evaluate(expression)
                  IN  IF r.st = "unsup"
                      THEN Did(CommandError(<<"<outside the model>">>), <<>>, <<expression>>)
                      ELSE IF r.st = "throw" \/ ~IsFinite(r.v)
                      THEN Did(InvalidExpression(expression), <<>>, <<expression>>)
                      ELSE Did(CommandResponse(<<"**">> \o expression \o <<"** = **">>
                                               \o NumberText(r.v) \o <<"**">>),
                               <<>>, <<expression>>)

\* What navigator.clipboard.readText() comes to: a text, or a rejection.
ClipText(text) == [t |-> "text", s |-> text]
ClipDenied == [t |-> "denied", s |-> <<>>]

ClipboardUnavailable ==
    CommandError(<<"Clipboard access not available. Try copying text and asking me to summarize it directly.">>)

\* A variant whose empty test does not trim the clipboard text.
SummarizeClipboardUntrimmed(read) ==
    IF read.t = "denied"
    THEN CommandError(<<"Clipboard access denied. Try copying text and asking me to summarize it directly.">>)
    ELSE IF read.s = <<>>
    THEN CommandError(<<"Clipboard is empty or contains no text">>)
    ELSE [isCommand |-> TRUE, response |-> ClipboardAck, error |-> Undefined,
          shouldContinueToLLM |-> TRUE, clipboardContent |-> read.s]

\* summarizeClipboard 227-253, from the await on
SummarizeClipboard(read) ==
    IF read.t = "denied"
    THEN CommandError(<<"Clipboard access denied. Try copying text and asking me to summarize it directly.">>)
    ELSE IF read.s = <<>> \/ Len(Trim(read.s)) = 0
    THEN CommandError(<<"Clipboard is empty or contains no text">>)
    ELSE [isCommand |-> TRUE, response |-> ClipboardAck, error |-> Undefined,
          shouldContinueToLLM |-> TRUE, clipboardContent |-> read.s]

\* A variant whose error does not name the command.
UnknownCommandUnnamed(command) ==
    Did(CommandError(<<"Unknown command: /">>
                     \o <<". Type /help for available commands.">>), <<>>, <<>>)

\* processInput 115-119: the default case of the switch
UnknownCommand(command) ==
    Did(CommandError(<<"Unknown command: /">> \o command
                     \o <<". Type /help for available commands.">>), <<>>, <<>>)

\* processInput 96-115: the switch, for the commands that need no await
ProcessCommand(command, args, opening) ==
    CASE command = Chars("help") -> ShowHelp
      [] command = Chars("open") -> OpenWebsite(args, opening)
      [] command \in {Chars("calc"), Chars("calculate")} -> Calculate(args)
      [] command = Chars("clipboard") -> Did(ClipboardUnavailable, <<>>, <<>>)
      [] OTHER -> UnknownCommand(command)

\* A variant that forwards the trimmed input (the code forwards it unchanged).
ChatMessagesForTrimmed(history, input) == Append(history, UserMessage(Trim(input)))

\* runCommandOrChat 62: the messages of an ordinary chat turn
ChatMessagesFor(history, input) == Append(history, UserMessage(input))

\* A variant that sends the history along with the summary prompt.
SummaryMessagesWithHistory(history, clipboardContent) ==
    Append(history, UserMessage(SummaryPrompt(clipboardContent)))

\* runCommandOrChat 71-72: the messages of the clipboard summary
SummaryMessagesFor(history, clipboardContent) ==
    <<UserMessage(SummaryPrompt(clipboardContent))>>

\* A variant that throws a command's error instead of returning it as text.
AfterProcessThrowing(c, key) ==
    IF ~c.cmd.isCommand
    THEN EnterChat(c, key, c.system, ChatMessagesFor(c.history, c.input), FALSE)
    ELSE IF Truthy(c.cmd.error)
    THEN Finish(c, Threw(c.cmd.error))
    ELSE IF c.cmd.shouldContinueToLLM /\ Truthy(c.cmd.clipboardContent)
    THEN EnterChat(c, key, c.system,
                   SummaryMessagesFor(c.history, c.cmd.clipboardContent), FALSE)
    ELSE Finish(c, Returned(IF Truthy(c.cmd.response) THEN c.cmd.response
                            ELSE <<"Command executed successfully.">>))

\* runCommandOrChat 60-76, with commandResult in c.cmd
AfterProcess(c, key) ==
    IF ~c.cmd.isCommand
    THEN EnterChat(c, key, c.system, ChatMessagesFor(c.history, c.input), FALSE)
    ELSE IF Truthy(c.cmd.error)
    THEN Finish(c, Returned(<<ErrorMark>> \o c.cmd.error))
    ELSE IF c.cmd.shouldContinueToLLM /\ Truthy(c.cmd.clipboardContent)
    THEN EnterChat(c, key, c.system,
                   SummaryMessagesFor(c.history, c.cmd.clipboardContent), FALSE)
    ELSE Finish(c, Returned(IF Truthy(c.cmd.response) THEN c.cmd.response
                            ELSE <<"Command executed successfully.">>))

\* processInput 83-88: whether the input is a command
IsCommandInput(input) == StartsWith(Trim(input), <<"/">>)

\* processInput 91-93
CommandOf(input) == ToLowerCase(Split(Tail(Trim(input)))[1])
ArgsOf(input) == Tail(Split(Tail(Trim(input))))

\* runCommandOrChat 58-76 once processInput has returned r for a command
\* that needs no await.
AfterCommand(c, r, opening, key) ==
    AfterProcess([c EXCEPT !.cmd = r.cmd, !.openLog = r.opened,
                           !.opening = IF r.opened = <<>> THEN "none" ELSE opening,
                           !.evalLog = r.evaluated,
                           !.command = CommandOf(c.input),
                           !.args = ArgsOf(c.input)], key)

\* runCommandOrChat from its call to its first await that waits for the
\* world (the clipboard or the network), or to its end.  clip is
\* navigator.clipboard && navigator.clipboard.readText.
RunCommandOrChat(c, key, clip, opening) ==
    IF ~IsCommandInput(c.input)
    THEN AfterProcess([c EXCEPT !.cmd = NoCommand], key)
    ELSE IF CommandOf(c.input) = Chars("clipboard") /\ clip
    THEN [c EXCEPT !.pc = "clip", !.clipReads = @ + 1,
                   !.command = CommandOf(c.input), !.args = ArgsOf(c.input)]
    ELSE AfterCommand(c, ProcessCommand(CommandOf(c.input), ArgsOf(c.input), opening),
                      opening, key)

\* A variant that reads the clipboard once more after a rejection.
ClipboardSettlesRetrying(c, key, read) ==
    IF read.t = "denied" /\ c.clipReads < 2
    THEN [c EXCEPT !.clipReads = @ + 1, !.clipRead = read]
    ELSE AfterProcess([c EXCEPT !.cmd = SummarizeClipboard(read), !.clipRead = read], key)

\* runCommandOrChat from the settling of navigator.clipboard.readText() on
ClipboardSettles(c, key, read) ==
    AfterProcess([c EXCEPT !.cmd = SummarizeClipboard(read), !.clipRead = read], key)

\* runCommandOrChat (or chat, called directly) from the settling of fetch on
FetchSettles(c, resp) == ChatExit([c EXCEPT !.resp = resp], ChatOutcome(resp))

-----------------------------------------------------------------------------
(* The main process: app/main/main.ts, ipcMain.handle('os.openExternal') *)

\* Arguments of the handler that are not strings.
NotAString == {Undefined, Null}

\* What the handler returns: { success: true } or { success: false, error }.
IpcSuccess == [kind |-> "success", val |-> Undefined]
IpcFailure(message) == [kind |-> "failure", val |-> message]

\* A variant of the test that takes every string.
OpenExternalAnyString(url) == url \notin NotAString

\* main.ts 92: the test in front of shell.openExternal
OpenExternalAllowed(url) ==
    /\ url \notin NotAString
    /\ (StartsWith(url, Chars("http://")) \/ StartsWith(url, Chars("https://")))

\* main.ts 90-102: the handler; shellOk: whether shell.openExternal resolves
OpenExternal(c, url, shellOk) ==
    IF OpenExternalAllowed(url)
    THEN Finish([c EXCEPT !.shellLog = Append(@, url)],
                IF shellOk THEN IpcSuccess ELSE IpcFailure(<<"<error.message>">>))
    ELSE Finish(c, IpcFailure(<<"Invalid URL">>))

-----------------------------------------------------------------------------
(* The chat window: app/renderer/components/Chat.tsx *)

PromptStyles == {"Balanced", "Brief", "Creative", "Professional"}

BasePrompt == "You are Clippy AI, a helpful desktop assistant."

\* handleSubmit 120-133
SystemPromptFor(style) ==
    CASE style = "Brief" ->
            <<BasePrompt, " Keep responses concise and to the point. Use markdown formatting when helpful.">>
      [] style = "Creative" ->
            <<BasePrompt, " Be creative, engaging, and use emojis. Make responses fun and interesting. Use markdown formatting when helpful.">>
      [] style = "Professional" ->
            <<BasePrompt, " Maintain a professional, formal tone. Provide comprehensive, well-structured responses. Use markdown formatting when helpful.">>
      [] OTHER ->
            <<BasePrompt, " Provide thoughtful and detailed responses. Use markdown formatting when helpful.">>

\* handleSubmit 100-105 and the Help button 188-193
NewUserMessage(content, t) ==
    [id |-> t, role |-> "user", content |-> content, ts |-> t]

\* handleSubmit 142-147 and the Help button 201-206
NewAssistantMessage(content, t) ==
    [id |-> t + 1, role |-> "assistant", content |-> content, ts |-> t]

\* handleSubmit 114-117
LlmMessages(msgs) ==
    [i \in 1..Len(msgs) |-> [role |-> msgs[i].role, content |-> msgs[i].content]]

\* A variant of the guard that does not look at the busy flag.
SubmitAcceptedWhenBusy(text, busy) == Trim(text) # <<>>

\* handleSubmit 95: the guard that lets a submission through
SubmitAccepted(text, busy) == ~(Trim(text) = <<>> \/ busy)

\* A variant that drops the last message when the turn failed.
TurnMessagesRollingBack(msgs, c, t) ==
    IF c.result.kind = "text"
    THEN Append(msgs, NewAssistantMessage(c.result.val, t))
    ELSE SubSeq(msgs, 1, Len(msgs) - 1)

\* handleSubmit 141-149: the message list once runCommandOrChat is over
\* (nothing is appended when it threw)
TurnMessages(msgs, c, t) ==
    IF c.result.kind = "text"
    THEN Append(msgs, NewAssistantMessage(c.result.val, t))
    ELSE msgs

\* handleSubmit 150-151: the error state once runCommandOrChat is over
TurnError(c, err) ==
    IF c.result.kind = "throw"
    THEN (IF Truthy(c.result.val) THEN c.result.val
          ELSE <<"Something went wrong with the AI response.">>)
    ELSE err

\* localStorage.getItem of a key that holds nothing
NoItem == [t |-> "null", items |-> <<>>]

\* Chat.tsx 55: JSON.stringify(messages), the text that lists the four fields
\* of every message in order
Stringify(msgs) ==
    [t |-> "string",
     items |-> [i \in 1..Len(msgs) |->
                   <<msgs[i].id, msgs[i].role, msgs[i].content, msgs[i].ts>>]]

\* Chat.tsx 40: JSON.parse(saved)
Parse(saved) ==
    [i \in 1..Len(saved.items) |->
        [id |-> saved.items[i][1], role |-> saved.items[i][2],
         content |-> saved.items[i][3], ts |-> saved.items[i][4]]]

\* Chat.tsx 62: no style is stored
NoStyle == "<null>"

\* The position of the mount: pc is "render" (rendered with the initial
\* state, no effect run yet), "loaded" (37-51 has run), "savedMessages"
\* (53-58 has run), "savedStyle" (60-63 has run) or "mounted" (rendered again
\* with what 37-51 set).  setMessages and setPromptStyle are the updates
\* 37-51 queued, reads the number of times it ran, before the store as the
\* mount found it (kept while the mount lasts).
Mounted ==
    [pc |-> "mounted",
     setMessages |-> [called |-> FALSE, arg |-> <<>>],
     setPromptStyle |-> [called |-> FALSE, arg |-> NoStyle],
     reads |-> 1, before |-> [messages |-> NoItem, style |-> NoStyle]]

Mounting(before) ==
    [Mounted EXCEPT !.pc = "render", !.reads = 0, !.before = before]

\* A variant of the effect that saves the history only when it has grown.
SaveMessagesOnAppend(item, before, after) ==
    IF Len(after) > Len(before) THEN Stringify(after) ELSE item

\* Chat.tsx 53-58: the effect that runs after a render in which messages
\* has changed
SaveMessages(item, before, after) ==
    IF after # before THEN Stringify(after) ELSE item

\* Chat.tsx 60-63: the effect that runs after a render in which promptStyle
\* has changed
SaveStyle(item, before, after) == IF after # before THEN after ELSE item

\* The effects of 53-63 after the render that follows a handler of the
\* mounted window.
Persist ==
    /\ mount.pc = "mounted"
    /\ stored' = [messages |-> SaveMessages(stored.messages, messages, messages'),
                  style |-> SaveStyle(stored.style, promptStyle, promptStyle')]
    /\ UNCHANGED mount

-----------------------------------------------------------------------------
(* The inputs the model draws from. *)

\* Texts the endpoint generates.
ModelTexts == {<<>>, <<" ">>, <<"\t", "\n">>, <<"o", "k">>, <<" ", "o", "k", "\n">>}

Contents == {ContentUndefined, ContentNumber} \cup {ContentString(s) : s \in ModelTexts}

NetOutcomes ==
    {NetOk(c) : c \in Contents}
        \cup {NetBadJson, NetError, NetAbort,
              NetHttp("401", "message", <<"Incorrect API key provided">>),
              NetHttp("500", "json", <<"{}">>),
              NetHttp("429", "text", <<>>),
              NetHttp("502", "text", <<"<html>Bad Gateway</html>">>)}

\* Texts on the clipboard.
ClipTexts == {<<>>, <<" ">>, <<"t", "x", "t">>, <<" ", "t", "\n">>}

ClipOutcomes == {ClipDenied} \cup {ClipText(s) : s \in ClipTexts}

\* The contexts runCommandOrChat is called with.
Systems == {<<>>, <<BasePrompt>>}

Histories ==
    {<<>>,
     <<UserMessage(Chars("hi")), [role |-> "assistant", content |-> <<"o", "k">>]>>}

\* The /calc expressions: every text over ExprAlphabet up to MaxExprLen
\* characters, and some longer ones.
ExprAlphabet == {"1", "0", "+", "/", " ", "\t", ";"}

GeneratedExprs == UNION {[1..n -> ExprAlphabet] : n \in 1..MaxExprLen}

LongerExprs ==
    {<<"2", " ", "+", " ", "2", " ", "*", " ", "3">>,
     <<"(", "1", "+", "2", ")", "*", "3">>,
     <<"1", ")", "+", "(", "1">>,
     <<"2", "*", "*", "3">>,
     <<"2", "*", "3", "*", "*", "2">>,
     <<"-", "2", "*", "*", "2">>,
     <<"2", "*", "*", "-", "2">>,
     <<"8", "/", "2", "/", "2">>,
     <<"7", "-", "2", "-", "1">>,
     <<"-", "(", "3", ")", "*", "2">>,
     <<"1", "/", "0">>,
     <<"2", ";", " ", "D", "R", "O", "P">>,
     <<"1", "0", "/", "4">>,
     <<"1", " ", "\n", "-", " ", "2">>,
     <<"a", "l", "e", "r", "t", "(", "1", ")">>}

\* Whether the evaluator of the model covers what the input makes it evaluate.
Evaluable(input) ==
    \/ ~IsCommandInput(input)
    \/ CommandOf(input) \notin {Chars("calc"), Chars("calculate")}
    \/ Len(ArgsOf(input)) = 0
    \/ ~SafetyCheck(Join(ArgsOf(input)))
    \/ Evaluate(Join(ArgsOf(input))).st # "unsup"

CalcInputs ==
    {i \in {Chars("/calc") \o <<" ">> \o e : e \in GeneratedExprs \cup LongerExprs} :
        Evaluable(i)}

PlainInputs ==
    {<<>>, <<" ">>, <<"\t", " ">>, Chars("hi"), Chars(" hi "), <<"h", "i", "\n">>,
     <<"a", "/", "b">>}

CommandInputs ==
    {Chars("/help"), <<"/", "H", "E", "L", "P">>, <<" ">> \o Chars("/help"),
     Chars("/help") \o <<" ", "x">>, Chars("/help") \o <<"\t", "x">>,
     <<"/">>, <<"/", " ">> \o Chars("help"), <<"/", "f", "r", "o", "b">>,
     Chars("/open"), Chars("/open") \o <<" ", "a", ".", "b">>,
     Chars("/open") \o <<" ">> \o Chars("http://") \o <<"a">>,
     Chars("/open") \o <<" ">> \o Chars("https://") \o <<"a">>,
     Chars("/open") \o <<" ", "a", " ", "b">>,
     Chars("/open") \o <<" ", " ", "a">>,
     Chars("/open") \o <<" ", "H", "T", "T", "P", ":", "/", "/", "a">>,
     Chars("/open") \o <<" ", "f", "t", "p", ":", "/", "/", "a">>,
     Chars("/open") \o <<"\t", "a">>,
     <<"/", "F", "r", "o", "b", " ", "X">>,
     Chars("/calc"), Chars("/calculate") \o <<" ", "2", "*", "3">>,
     <<"/", "C", "A", "L", "C", " ", "1", "+", "1">>,
     Chars("/clipboard"), Chars("/clipboard") \o <<" ", "x">>,
     <<"/", "C", "L", "I", "P", "b", "o", "a", "r", "d">>}

RouterInputs == PlainInputs \cup CommandInputs \cup CalcInputs

\* The /open inputs of the router.
OpenInputs == {i \in CommandInputs : CommandOf(i) = Chars("open")}

\* What the renderer can send to the os.openExternal handler.
UrlHeads ==
    {<<>>, Chars("http://"), Chars("https://"), <<" ">> \o Chars("https://"),
     <<"H", "T", "T", "P", ":", "/", "/">>, <<"h", "t", "t", "p", ":", "/">>,
     <<"h", "t", "t", "p", "s", ":">>, <<"f", "i", "l", "e", ":", "/", "/">>,
     <<"f", "t", "p", ":", "/", "/">>}

UrlTails == {<<>>, <<"a">>, <<"a", ".", "b">>}

IpcArgs == NotAString \cup {head \o tail : head \in UrlHeads, tail \in UrlTails}

\* What the user types into the window, and what the clipboard and the
\* network come to while the window runs.
TypedInputs == {<<" ">>, Chars("hi"), Chars("/clipboard")}

\* None of TypedInputs is an /open command, so window.open is not called
\* while the window runs and one outcome stands for all.
WindowOpenOutcomes == {"window"}

\* The styles the user selects while the window runs: the default and one
\* other (the style goes into the system prompt and into the store only).
WindowStyles == {"Balanced", "Creative"}

WindowClipOutcomes == {ClipDenied, ClipText(<<" ">>), ClipText(<<"t", "x", "t">>)}

WindowNetOutcomes ==
    {NetOk(ContentString(<<" ", "o", "k", "\n">>)), NetOk(ContentString(<<" ">>)), NetError}

-----------------------------------------------------------------------------
(* The state machine. *)

\* The window starts with or without a credential, mounted after a first
\* start with nothing stored.
WindowKeys == {"", "sk-test"}

Init ==
    /\ apiKey \in WindowKeys
    /\ clipApi \in BOOLEAN
    /\ call = NoCall
    /\ messages = <<>>
    /\ inputText = <<>>
    /\ loading = FALSE
    /\ error = Null
    /\ promptStyle = "Balanced"
    /\ now = 0
    /\ stored = [messages |-> Stringify(<<>>), style |-> "Balanced"]
    /\ mount = Mounted

window == <<messages, inputText, loading, error, promptStyle, now, stored, mount>>

\* Whether a call is waiting for the clipboard or the network.
Waiting == call.pc \in {"clip", "fetch"}

\* chat(system, messages, opts), called directly.
ChatCall(system, chatMessages, signal) ==
    /\ call.pc = "idle"
    /\ call' = EnterChat(NewCall("chat", <<>>, system, chatMessages, Undefined),
                         apiKey, system, chatMessages, signal)
    /\ UNCHANGED <<apiKey, clipApi, window>>

\* oneShot(system, userText, opts)
OneShotCall(system, userText, signal) ==
    /\ call.pc = "idle"
    /\ call' = EnterChat(NewCall("oneShot", userText, system, <<UserMessage(userText)>>,
                                 Undefined),
                         apiKey, system, <<UserMessage(userText)>>, signal)
    /\ UNCHANGED <<apiKey, clipApi, window>>

\* runCommandOrChat(input, {system, history}), called directly.
RouterCall(input, system, history, opening) ==
    /\ call.pc = "idle"
    /\ call' = RunCommandOrChat(NewCall("router", input, system, history, Undefined),
                                apiKey, clipApi, opening)
    /\ UNCHANGED <<apiKey, clipApi, window>>

\* The renderer invokes 'os.openExternal' with url.
OpenExternalCall(url, shellOk) ==
    /\ call.pc = "idle"
    /\ call' = OpenExternal(NewCall("ipc", url, <<>>, <<>>, Undefined), url, shellOk)
    /\ UNCHANGED <<apiKey, clipApi, window>>

\* The caller of a direct call has its result; the next call starts afresh.
Return ==
    /\ call.pc = "done"
    /\ call.origin \in {"chat", "oneShot", "router", "ipc"}
    /\ call' = NoCall
    /\ UNCHANGED <<apiKey, clipApi, window>>

\* The continuation of handleSubmit (141-154) when its call, now call',
\* is over.
Resume ==
    /\ IF call'.origin = "submit" /\ call'.pc = "done"
       THEN /\ messages' = TurnMessages(messages, call', now)
            /\ error' = TurnError(call', error)
            /\ loading' = FALSE
       ELSE UNCHANGED <<messages, error, loading>>
    /\ UNCHANGED <<apiKey, clipApi, inputText, promptStyle, now>>
    /\ Persist

\* navigator.clipboard.readText() settles.
ClipboardSettle(read) ==
    /\ call.pc = "clip"
    /\ call' = ClipboardSettles(call, apiKey, read)
    /\ Resume

\* fetch settles.
FetchSettle(resp) ==
    /\ call.pc = "fetch"
    /\ call' = FetchSettles(call, resp)
    /\ Resume

\* handleChange
Type(text) ==
    /\ inputText' = text
    /\ UNCHANGED <<apiKey, clipApi, call, messages, loading, error, promptStyle,
                   now>>
    /\ Persist

\* handleSubmit, from the Send button or the Enter key, up to its await of
\* the clipboard or the network, or to its end when the command needs
\* neither (its awaits are then over before the next event is handled).
Submit(opening) ==
    /\ SubmitAccepted(inputText, loading)
    /\ Len(messages) + 2 <= MaxMessages
    /\ call' = RunCommandOrChat(
                    NewCall("submit", inputText, SystemPromptFor(promptStyle),
                            LlmMessages(messages), NewUserMessage(inputText, now)),
                    apiKey, clipApi, opening)
    /\ messages' = IF call'.pc = "done"
                   THEN TurnMessages(Append(messages, call'.userMessage), call', now)
                   ELSE Append(messages, call'.userMessage)
    /\ error' = IF call'.pc = "done" THEN TurnError(call', Null) ELSE Null
    /\ loading' = (call'.pc # "done")
    /\ inputText' = <<>>
    /\ UNCHANGED <<apiKey, clipApi, promptStyle, now>>
    /\ Persist

\* handleSubmit 93-98 when its guard turns the submission down: the early
\* return, from the Enter key at any time or from the Send button while it is
\* not disabled.
SubmitRejected ==
    /\ ~SubmitAccepted(inputText, loading)
    /\ UNCHANGED vars

\* The Help button (187-208); runCommandOrChat("/help") needs neither the
\* clipboard nor the network, so the handler is over before the next event.
HelpClick ==
    /\ Len(messages) + 2 <= MaxMessages
    /\ LET c == RunCommandOrChat(
                    NewCall("help", Chars("/help"), <<BasePrompt>>, <<>>, Undefined),
                    apiKey, clipApi, "window")
       IN  messages' = TurnMessages(Append(messages, NewUserMessage(Chars("/help"), now)),
                                    c, now)
    /\ UNCHANGED <<apiKey, clipApi, call, inputText, loading, error, promptStyle, now>>
    /\ Persist

\* The Clear button (185)
Clear ==
    /\ messages' = <<>>
    /\ UNCHANGED <<apiKey, clipApi, call, inputText, loading, error, promptStyle,
                   now>>
    /\ Persist

\* The style selector (174-179)
SetStyle(style) ==
    /\ promptStyle' = style
    /\ UNCHANGED <<apiKey, clipApi, call, messages, inputText, loading, error,
                   now>>
    /\ Persist

\* The clock moves on.
Tick ==
    /\ now < MaxClock
    /\ now' = now + 1
    /\ UNCHANGED <<apiKey, clipApi, call, messages, inputText, loading, error,
                   promptStyle>>
    /\ Persist

\* Chat.tsx 37-51: the effect of the mount that reads the store and queues
\* what it found.  A stored text is truthy (JSON.stringify gives "[]" at the
\* least); a stored style is taken when it is one of the four.
LoadEffect ==
    /\ mount.pc = "render"
    /\ mount' = [mount EXCEPT
                    !.pc = "loaded",
                    !.reads = @ + 1,
                    !.setMessages = IF stored.messages.t = "string"
                                    THEN [called |-> TRUE,
                                          arg |-> Parse(stored.messages)]
                                    ELSE @,
                    !.setPromptStyle = IF stored.style \in PromptStyles
                                       THEN [called |-> TRUE, arg |-> stored.style]
                                       ELSE @]
    /\ UNCHANGED <<apiKey, clipApi, call, messages, inputText, loading, error,
                   promptStyle, now, stored>>

\* Chat.tsx 53-58 in the mount: the effect runs with the messages of the
\* first render.
MountSaveMessages ==
    /\ mount.pc = "loaded"
    /\ stored' = [stored EXCEPT !.messages = Stringify(messages)]
    /\ mount' = [mount EXCEPT !.pc = "savedMessages"]
    /\ UNCHANGED <<apiKey, clipApi, call, messages, inputText, loading, error,
                   promptStyle, now>>

\* Chat.tsx 60-63 in the mount: the effect runs with the style of the first
\* render.
MountSaveStyle ==
    /\ mount.pc = "savedMessages"
    /\ stored' = [stored EXCEPT !.style = promptStyle]
    /\ mount' = [mount EXCEPT !.pc = "savedStyle"]
    /\ UNCHANGED <<apiKey, clipApi, call, messages, inputText, loading, error,
                   promptStyle, now>>

\* The render that applies what 37-51 queued, and the effects of 53-63
\* that follow it.
Rerender ==
    /\ mount.pc = "savedStyle"
    /\ messages' = IF mount.setMessages.called THEN mount.setMessages.arg
                   ELSE messages
    /\ promptStyle' = IF mount.setPromptStyle.called THEN mount.setPromptStyle.arg
                      ELSE promptStyle
    /\ stored' = [messages |-> SaveMessages(stored.messages, messages, messages'),
                  style |-> SaveStyle(stored.style, promptStyle, promptStyle')]
    /\ mount' = Mounted
    /\ UNCHANGED <<apiKey, clipApi, call, inputText, loading, error, now>>

\* The chat window.
Next ==
    \/ \E text \in TypedInputs : Type(text)
    \/ \E opening \in WindowOpenOutcomes : Submit(opening)
    \/ SubmitRejected
    \/ HelpClick
    \/ Clear
    \/ \E style \in WindowStyles : SetStyle(style)
    \/ Tick
    \/ \E read \in WindowClipOutcomes : ClipboardSettle(read)
    \/ \E resp \in WindowNetOutcomes : FetchSettle(resp)

Spec == Init /\ [][Next]_vars

\* The chat window when every request of the Model Client settles: handleSubmit
\* passes no signal, so chat sets its timer (llm.ts 76-78) and the request
\* is aborted after 60 s at the latest.  The read of the clipboard has no
\* such limit.
LiveSpec ==
    Spec /\ WF_vars(\E resp \in WindowNetOutcomes : FetchSettle(resp))

\* What a start of the window finds in the store: nothing, or what an
\* earlier run has left there, or a style this version does not know.
StoredHistories ==
    {NoItem,
     Stringify(<<>>),
     Stringify(<<NewUserMessage(Chars("hi"), 0)>>),
     Stringify(<<NewUserMessage(Chars("hi"), 0),
                 NewAssistantMessage(<<"o", "k">>, 0)>>)}

StoredStyles == {NoStyle, "Brief", "Fancy"}

\* The window from its mount on, with a credential.
StoreInit ==
    /\ apiKey = "sk-test"
    /\ clipApi = TRUE
    /\ call = NoCall
    /\ messages = <<>>
    /\ inputText = <<>>
    /\ loading = FALSE
    /\ error = Null
    /\ promptStyle = "Balanced"
    /\ now = 0
    /\ stored \in [messages : StoredHistories, style : StoredStyles]
    /\ mount = Mounting(stored)

StoreNext ==
    \/ LoadEffect
    \/ MountSaveMessages
    \/ MountSaveStyle
    \/ Rerender
    \/ Type(Chars("hi"))
    \/ \E opening \in WindowOpenOutcomes : Submit(opening)
    \/ HelpClick
    \/ Clear
    \/ \E style \in PromptStyles : SetStyle(style)
    \/ Tick
    \/ \E resp \in WindowNetOutcomes : FetchSettle(resp)

StoreSpec == StoreInit /\ [][StoreNext]_vars

\* The router, called directly with every input.
RouterNext ==
    \/ \E input \in RouterInputs, system \in Systems, history \in Histories,
          opening \in OpenOutcomes : RouterCall(input, system, history, opening)
    \/ \E read \in ClipOutcomes : ClipboardSettle(read)
    \/ \E resp \in NetOutcomes : FetchSettle(resp)
    \/ Return

\* No window: the state of a direct caller of the router or the Model Client.
DirectInit ==
    /\ apiKey \in ApiKeys
    /\ clipApi \in BOOLEAN
    /\ call = NoCall
    /\ messages = <<>>
    /\ inputText = <<>>
    /\ loading = FALSE
    /\ error = Null
    /\ promptStyle = "Balanced"
    /\ now = 0
    /\ stored = [messages |-> Stringify(<<>>), style |-> "Balanced"]
    /\ mount = Mounted

RouterSpec == DirectInit /\ [][RouterNext]_vars

\* The Model Client, called directly.
ChatNext ==
    \/ \E system \in Systems, history \in Histories, signal \in BOOLEAN :
          ChatCall(system, history, signal)
    \/ \E system \in Systems, text \in PlainInputs, signal \in BOOLEAN :
          OneShotCall(system, text, signal)
    \/ \E resp \in NetOutcomes : FetchSettle(resp)
    \/ Return

ChatSpec == DirectInit /\ [][ChatNext]_vars

\* The opening of URLs: /open in the router and the handler of the main
\* process.
OpenNext ==
    \/ \E input \in OpenInputs, system \in Systems, history \in Histories,
          opening \in OpenOutcomes : RouterCall(input, system, history, opening)
    \/ \E url \in IpcArgs, shellOk \in BOOLEAN : OpenExternalCall(url, shellOk)
    \/ Return

OpenSpec == DirectInit /\ [][OpenNext]_vars

-----------------------------------------------------------------------------
(* The properties. *)

AllWhiteSpace(text) == \A i \in 1..Len(text) : text[i] \in {" ", "\t", "\n"}

\* A direct call of runCommandOrChat that has got as far as pc.
RouterAt(pcs) == call.origin = "router" /\ call.pc \in pcs

\* The input of the call starts, once trimmed, with the sigil.
Sigil == StartsWith(Trim(call.input), <<"/">>)

\* The input of the call is the command name, in any case.
Command(name) == Sigil /\ CommandOf(call.input) = name

\* The clipboard read of the call returned text that is not blank.
ClipboardHadText == call.clipRead.t = "text" /\ ~AllWhiteSpace(call.clipRead.s)

\* C1: for input that does not start with '/' once trimmed (empty and blank
\* input included) runCommandOrChat calls the Model Client exactly once, with
\* the context's system prompt and the history followed by one user message
\* holding the input unchanged, and returns what the Model Client returns.
C1_OrdinaryChatForwarded ==
    (RouterAt({"fetch", "done"}) /\ ~Sigil)
    => /\ call.chatLog =
            <<[system |-> call.system,
               messages |-> call.history
                              \o <<[role |-> "user", content |-> call.input]>>]>>
       /\ Len(call.fetchLog) <= 1
       /\ (call.pc = "done" => call.result = call.chatRet)

C1_Witness ==
    /\ RouterAt({"done"})
    /\ call.input = <<"\t", " ">>
    /\ call.history # <<>>
    /\ call.result = Returned(<<"o", "k">>)

\* C2, as claimed: runCommandOrChat never throws to its caller.
C2_NeverThrows == RouterAt({"done"}) => call.result.kind = "text"

\* C2, amended: runCommandOrChat throws to its caller only when its call of
\* the Model Client failed, and then it throws the Model Client's error; on
\* every other path it returns a text.
C2_ThrowsOnlyWhenModelFails ==
    RouterAt({"done"})
    => /\ call.result.kind \in {"text", "throw"}
       /\ call.result.kind = "throw"
            => (Len(call.chatLog) = 1 /\ call.chatRet.kind = "throw"
                /\ call.result = call.chatRet)
       /\ call.chatRet.kind # "throw" => call.result.kind = "text"

C2_Witness ==
    /\ RouterAt({"done"})
    /\ Command(Chars("clipboard"))
    /\ call.resp.t = "neterr"
    /\ call.result.kind = "throw"

\* C3: the Model Client is called only for ordinary chat and for /clipboard
\* with clipboard text that is not blank; every other command, and every
\* command that ends in an error, calls it zero times and returns its
\* response or its error text.
C3_ModelCalledOnlyForChatAndSummary ==
    RouterAt({"clip", "fetch", "done"})
    => LET chatty == ~Sigil \/ (Command(Chars("clipboard")) /\ ClipboardHadText)
       IN  /\ ~chatty => (call.chatLog = <<>> /\ call.fetchLog = <<>>)
           /\ (~chatty /\ call.pc = "done")
                => (call.result.kind = "text"
                    /\ call.result.val \in {call.cmd.response,
                                            <<ErrorMark>> \o call.cmd.error})

C3_Witness ==
    /\ RouterAt({"done"})
    /\ Command(Chars("clipboard"))
    /\ call.clipRead = ClipText(<<" ">>)
    /\ call.chatLog = <<>>
    /\ StartsWith(call.result.val, <<ErrorMark>>)

\* The characters the whitelist of /calc names: digits, + - * / ( ) . and
\* the space.
Whitelist == {"0", "1", "2", "3", "4", "5", "6", "7", "8", "9",
              "+", "-", "*", "/", "(", ")", ".", " "}

\* C4: /calc and /calculate reject with an error every expression that holds
\* a character outside the whitelist, and never hand it to the evaluator.
C4_OutsideWhitelistRejected ==
    (RouterAt({"done"}) /\ (Command(Chars("calc")) \/ Command(Chars("calculate")))
        /\ Len(ArgsOf(call.input)) > 0
        /\ \E i \in 1..Len(Join(ArgsOf(call.input))) :
              Join(ArgsOf(call.input))[i] \notin Whitelist)
    => (call.evalLog = <<>> /\ Truthy(call.cmd.error))

\* C5: /clipboard with clipboard text that is not blank calls the Model
\* Client exactly once, with the context's system prompt and one user message
\* (no history) whose content holds the clipboard text, and returns the
\* acknowledgement, a blank line and the summary.
C5_ClipboardSummary ==
    (RouterAt({"fetch", "done"}) /\ Command(Chars("clipboard")) /\ ClipboardHadText)
    => /\ Len(call.chatLog) = 1
       /\ call.chatLog[1].system = call.system
       /\ Len(call.chatLog[1].messages) = 1
       /\ call.chatLog[1].messages[1].role = "user"
       /\ Includes(call.chatLog[1].messages[1].content, call.clipRead.s)
       /\ Len(call.fetchLog) <= 1
       /\ (call.pc = "done" /\ call.chatRet.kind = "text")
            => call.result = Returned(ClipboardAck \o <<"\n\n">> \o call.chatRet.val)

C5_Witness ==
    /\ RouterAt({"done"})
    /\ Command(Chars("clipboard"))
    /\ call.clipRead = ClipText(<<" ", "t", "\n">>)
    /\ call.history # <<>>
    /\ call.result = Returned(ClipboardAck \o <<"\n\n", "o", "k">>)

\* A handleSubmit call is between its start and its finally block.
InFlight == call.origin = "submit" /\ call.pc \in {"clip", "fetch"}

\* The step appends a user message to the conversation.
AppendsUserMessage ==
    /\ Len(messages') > Len(messages)
    /\ \E i \in (Len(messages) + 1)..Len(messages') : messages'[i].role = "user"

\* C6: while a handleSubmit call is in flight no action of the window (Send,
\* Enter, the Help button) starts another runCommandOrChat call or appends
\* another user message.
C6_OneTurnInFlight ==
    [][InFlight => ~(HelpClick \/ (\E o \in OpenOutcomes : Submit(o))
                      \/ AppendsUserMessage)]_vars

\* The banner shows an error.
ErrorShown == error # Null /\ error # <<>>

\* C7: when the Model Client fails during a handleSubmit turn the user
\* message of the turn stays in the conversation, no assistant message is
\* appended, and the error state is set.
C7_FailureKeepsUserMessage ==
    [][(call'.origin = "submit" /\ call'.pc = "done"
            /\ call'.chatRet.kind = "throw")
        => /\ InFlight
                => (messages' = messages /\ ErrorShown' /\ ~loading')
           /\ (\E o \in OpenOutcomes : Submit(o))
                => (messages' = Append(messages, call'.userMessage)
                    /\ ErrorShown' /\ ~loading')]_vars

C7_Witness ==
    /\ call.origin = "submit" /\ call.pc = "done"
    /\ call.fetchLog # <<>>
    /\ call.chatRet.kind = "throw"
    /\ messages # <<>>
    /\ messages[Len(messages)] = call.userMessage
    /\ ErrorShown
    /\ ~loading

\* C8: the ids of the messages of the conversation are pairwise distinct,
\* whatever the submissions, Help clicks and Clear clicks and however the
\* clock advances (two events of one tick included).
C8_UniqueIds ==
    \A i, j \in 1..Len(messages) : i # j => messages[i].id # messages[j].id

\* A direct call of chat or oneShot.
ClientCall == call.origin \in {"chat", "oneShot"}

\* C9: chat never returns an empty success: content that is missing, not a
\* string, empty or blank makes it fail with the empty-response error, and
\* any other content is returned trimmed and non-empty.
C9_NoEmptySuccess ==
    /\ (ClientCall /\ call.pc = "done" /\ call.result.kind = "text")
         => (call.result.val # <<>> /\ ~AllWhiteSpace(call.result.val))
    /\ (ClientCall /\ call.pc = "done" /\ call.resp.t = "ok")
         => IF call.resp.content.t # "string" \/ AllWhiteSpace(call.resp.content.s)
            THEN call.result = Threw(EmptyResponseMessage)
            ELSE /\ call.result = Returned(Trim(call.resp.content.s))
                 /\ call.result.val # <<>>

C9_Witness ==
    /\ ClientCall /\ call.pc = "done"
    /\ call.resp.t = "ok"
    /\ call.resp.content = ContentString(<<"\t", "\n">>)
    /\ call.result = Threw(EmptyResponseMessage)

\* C10: without a credential every call of chat and of oneShot fails with
\* the missing-credential error before any network request.
C10_NoCredentialNoRequest ==
    (ClientCall /\ apiKey \in {"<undefined>", ""})
    => /\ call.pc = "done"
       /\ call.result = Threw(MissingKeyMessage)
       /\ call.fetchLog = <<>>
       /\ call.timers = 0

C10_Witness ==
    /\ call.origin = "oneShot" /\ call.pc = "done"
    /\ apiKey = ""
    /\ call.result = Threw(MissingKeyMessage)

\* The text begins with one of the two schemes.
HasScheme(url) ==
    \/ (Len(url) >= 7 /\ SubSeq(url, 1, 7) = <<"h", "t", "t", "p", ":", "/", "/">>)
    \/ (Len(url) >= 8 /\ SubSeq(url, 1, 8) = <<"h", "t", "t", "p", "s", ":", "/", "/">>)

\* The texts of a list, with one space between neighbours.
RECURSIVE Spaced(_)
Spaced(texts) ==
    IF texts = <<>> THEN <<>>
    ELSE IF Len(texts) = 1 THEN texts[1]
    ELSE texts[1] \o <<" ">> \o Spaced(Tail(texts))

\* The URL /open is to hand over, from the arguments the call has parsed.
ExpectedUrl ==
    IF HasScheme(Spaced(call.args)) THEN Spaced(call.args)
    ELSE <<"h", "t", "t", "p", "s", ":", "/", "/">> \o Spaced(call.args)

\* An /open call with at least one argument is over.
OpenDone == RouterAt({"done"}) /\ call.command = Chars("open") /\ call.args # <<>>

\* The call returned the confirmation of /open (and no error text).
Confirmed ==
    /\ call.result.kind = "text"
    /\ ~StartsWith(call.result.val, <<ErrorMark>>)
    /\ Includes(call.result.val, <<"Opened: ">>)

\* C11: for /open with at least one argument the open capability is invoked
\* once, with the arguments joined by single spaces and 'https://' put in
\* front exactly when the joined text does not begin with 'http://' or
\* 'https://'; the confirmation contains that URL.
C11_OpenNormalizesUrl ==
    OpenDone
    => /\ call.openLog = <<ExpectedUrl>>
       /\ Confirmed => Includes(call.result.val, ExpectedUrl)

C11_Witness ==
    /\ OpenDone
    /\ call.args = <<<<"h", "t", "t", "p", ":", "/", "/", "a">>>>
    /\ call.openLog = <<<<"h", "t", "t", "p", ":", "/", "/", "a">>>>
    /\ Confirmed

\* C12: /open returns a confirmation only when the open capability
\* succeeded; whenever the capability fails (it reports no success, or it
\* throws) the call returns an error text with the capability's message and
\* no confirmation.
C12_ConfirmationOnlyOnSuccess ==
    OpenDone
    => /\ Confirmed => call.opening = "window"
       /\ call.opening # "window"
            => (StartsWith(call.result.val, <<ErrorMark>>)
                /\ Includes(call.result.val, <<"<error.message>">>))

\* A reference evaluator of basic arithmetic, by splitting the text at the
\* operator that is applied last: the rightmost binary + or - outside every
\* parenthesis, else the rightmost binary * or /, else a sign in front,
\* else a pair of parentheses around the whole, else a decimal literal.
\* Its values are exact fractions n/d; ok is FALSE when the text is no
\* expression of this grammar or divides by zero.
RefBlank == {" ", "\t", "\n"}

RefValue(n, d) ==
    LET g == IF n = 0 THEN d ELSE Gcd(Abs(n), d)
    IN  [ok |-> TRUE, n |-> n \div g, d |-> d \div g]

RefNone == [ok |-> FALSE, n |-> 0, d |-> 1]

\* How many parentheses are open in front of index i.
RefDepth(t, i) ==
    Cardinality({j \in 1..(i - 1) : t[j] = "("})
        - Cardinality({j \in 1..(i - 1) : t[j] = ")"})

RefBalanced(t) ==
    /\ \A i \in 1..Len(t) : RefDepth(t, i + 1) >= 0
    /\ RefDepth(t, Len(t) + 1) = 0

\* The operator at index i is binary: an operand ends in front of it.
RefBinary(t, i) ==
    /\ RefDepth(t, i) = 0
    /\ \E j \in 1..(i - 1) :
          /\ t[j] \in Digits \cup {")"}
          /\ \A k \in (j + 1)..(i - 1) : t[k] \in RefBlank

RefSplits(t, operators) ==
    {i \in 1..Len(t) : t[i] \in operators /\ RefBinary(t, i)}

RefMax(set) == CHOOSE i \in set : \A j \in set : j <= i

RefApply(op, a, b) ==
    IF ~a.ok \/ ~b.ok THEN RefNone
    ELSE CASE op = "+" -> RefValue(a.n * b.d + b.n * a.d, a.d * b.d)
           [] op = "-" -> RefValue(a.n * b.d - b.n * a.d, a.d * b.d)
           [] op = "*" -> RefValue(a.n * b.n, a.d * b.d)
           [] op = "/" -> IF b.n = 0 THEN RefNone
                          ELSE RefValue((IF b.n < 0 THEN -1 ELSE 1) * a.n * b.d,
                                        a.d * Abs(b.n))

RECURSIVE RefEval(_)
RefEval(text) ==
    LET t == Trim(text)
        sums == RefSplits(t, {"+", "-"})
        products == RefSplits(t, {"*", "/"})
        at == IF sums # {} THEN RefMax(sums) ELSE RefMax(products)
    IN  IF t = <<>> \/ ~RefBalanced(t) THEN RefNone
        ELSE IF sums # {} \/ products # {}
        THEN RefApply(t[at], RefEval(SubSeq(t, 1, at - 1)),
                      RefEval(SubSeq(t, at + 1, Len(t))))
        ELSE IF t[1] = "+" THEN RefEval(Tail(t))
        ELSE IF t[1] = "-"
        THEN RefApply("-", RefValue(0, 1), RefEval(Tail(t)))
        ELSE IF t[1] = "(" /\ t[Len(t)] = ")"
        THEN RefEval(SubSeq(t, 2, Len(t) - 1))
        ELSE IF \A i \in 1..Len(t) : t[i] \in Digits
        THEN RefValue(DigitsValue(t, 1, Len(t) + 1), 1)
        ELSE RefNone

\* The text of a reference value, as the response prints a number.
RefText(v) ==
    NumberText([k |-> "fin", s |-> IF v.n < 0 THEN -1 ELSE 1, n |-> Abs(v.n),
                d |-> v.d])

\* A /calc or /calculate call that handed an expression to the evaluator
\* is over.
CalcDone ==
    /\ RouterAt({"done"})
    /\ call.command \in {Chars("calc"), Chars("calculate")}
    /\ call.evalLog # <<>>

\* The response of /calc for an expression and the text of its result.
CalcResponse(expression, result) ==
    <<"**">> \o expression \o <<"** = **">> \o result \o <<"**">>

\* C13: /calc evaluates an accepted expression as basic arithmetic (the
\* operators + - * /, parentheses and decimal literals, with the standard
\* precedence and left associativity): the result it reports is the value of
\* the reference evaluator, in a response of the form expression = result.
C13_ResultIsReferenceValue ==
    (CalcDone /\ Truthy(call.cmd.response))
    => LET ref == RefEval(call.evalLog[1])
       IN  /\ ref.ok
           /\ ref.d \in PowersOfTwo
           /\ call.result = Returned(CalcResponse(call.evalLog[1], RefText(ref)))

\* C14: whenever the evaluated result of /calc is not a finite number the
\* call returns an error text and never a response expression = result.
C14_NonFiniteIsError ==
    (CalcDone /\ Evaluate(call.evalLog[1]).st = "ok"
        /\ Evaluate(call.evalLog[1]).v.k \in {"inf", "nan"})
    => /\ ~Truthy(call.cmd.response)
       /\ call.result = Returned(<<ErrorMark, "Invalid math expression: \"">>
                                   \o call.evalLog[1] \o <<"\"">>)
       /\ ~Includes(call.result.val, <<"** = **">>)

C14_Witness ==
    /\ CalcDone
    /\ call.evalLog = <<<<"1", "/", "0">>>>
    /\ StartsWith(call.result.val, <<ErrorMark>>)

\* The command name as the input has it: what follows the sigil, up to the
\* first space.
LiteralName == Split(Tail(Trim(call.input)))[1]

\* A call whose input starts with the sigil and names none of the commands
\* is over.
UnknownDone ==
    /\ RouterAt({"done"})
    /\ Sigil
    /\ ToLowerCase(LiteralName)
          \notin {Chars("help"), Chars("open"), Chars("calc"), Chars("calculate"),
                  Chars("clipboard")}

\* C15, as claimed: for an unknown command the call returns an error text
\* with 'Unknown command' and the command name as the input has it, and
\* makes no Model Client call.
C15_UnknownCommandLiteral ==
    UnknownDone
    => /\ StartsWith(call.result.val, <<ErrorMark>>)
       /\ Includes(call.result.val, <<"Unknown command: /">> \o LiteralName)
       /\ call.chatLog = <<>>

\* C15, amended: for an unknown command the call returns an error text with
\* 'Unknown command' and the command name of the input in lower case, and
\* makes no Model Client call and no request.
C15_UnknownCommandLowerCased ==
    UnknownDone
    => /\ call.result.kind = "text"
       /\ StartsWith(call.result.val, <<ErrorMark>>)
       /\ Includes(call.result.val,
                   <<"Unknown command: /">> \o ToLowerCase(LiteralName))
       /\ call.chatLog = <<>>
       /\ call.fetchLog = <<>>

C15_Witness ==
    /\ UnknownDone
    /\ call.input = <<"/", "F", "r", "o", "b", " ", "X">>
    /\ Includes(call.result.val, <<"Unknown command: /", "f", "r", "o", "b">>)

\* How many times the call has invoked a capability.
Invocations == Len(call.openLog) + call.clipReads + Len(call.chatLog)

\* C16: during one runCommandOrChat call the URL-open capability, the
\* clipboard read and the Model Client are each invoked at most once (and
\* the Model Client sends at most one request), and after a failed
\* invocation the call invokes nothing more.
C16_EachCapabilityOnce ==
    call.origin = "router"
    => /\ Len(call.openLog) <= 1
       /\ call.clipReads <= 1
       /\ Len(call.chatLog) <= 1
       /\ Len(call.fetchLog) <= 1
       /\ call.opening \in {"null", "throws"}
            => (call.pc = "done" /\ Invocations = 1)
       /\ call.clipRead.t = "denied"
            => (call.pc = "done" /\ Invocations = 1)
       /\ call.chatRet.kind = "throw"
            => (call.pc = "done" /\ Len(call.chatLog) = 1 /\ Invocations <= 2)

C16_Witness ==
    /\ RouterAt({"done"})
    /\ call.clipRead.t = "denied"
    /\ call.clipReads = 1
    /\ call.chatLog = <<>>
    /\ StartsWith(call.result.val, <<ErrorMark>>)

\* C17: no URL is opened in the system browser unless it begins with
\* 'http://' or 'https://': for every other argument the os.openExternal
\* handler returns success false with the error 'Invalid URL' and does not
\* call the shell; and every URL /open hands to the open capability begins
\* with one of the two schemes.
C17_OnlyHttpUrlsOpened ==
    /\ call.origin = "ipc"
         => /\ \A i \in 1..Len(call.shellLog) : HasScheme(call.shellLog[i])
            /\ (call.pc = "done" /\ ~HasScheme(call.input))
                 => (call.shellLog = <<>>
                     /\ call.result = [kind |-> "failure", val |-> <<"Invalid URL">>])
    /\ call.origin = "router"
         => \A i \in 1..Len(call.openLog) : HasScheme(call.openLog[i])

C17_Witness ==
    /\ call.origin = "ipc" /\ call.pc = "done"
    /\ call.input = <<"f", "i", "l", "e", ":", "/", "/", "a">>
    /\ call.shellLog = <<>>
    /\ call.result.kind = "failure"

\* The tokens of a text that white space delimits: the maximal runs of
\* characters that are not white space, from index i on, after the finished
\* tokens acc and the unfinished token cur.
RECURSIVE TokensFrom(_, _, _, _)
TokensFrom(text, i, cur, acc) ==
    LET done == IF cur = <<>> THEN acc ELSE Append(acc, cur)
    IN  IF i > Len(text) THEN done
        ELSE IF text[i] \in {" ", "\t", "\n"}
        THEN TokensFrom(text, i + 1, <<>>, done)
        ELSE TokensFrom(text, i + 1, Append(cur, text[i]), acc)

\* The tokens after the sigil of the input of the call.
InputTokens == TokensFrom(Tail(Trim(call.input)), 1, <<>>, <<>>)

\* C18: for input that begins with '/' the command is the first token that
\* white space delimits after the sigil, in lower case, and the arguments
\* are the remaining tokens as they are; this holds for any white space
\* between the tokens, and no token is empty.
C18_WhitespaceDelimitedTokens ==
    (RouterAt({"clip", "fetch", "done"}) /\ Sigil /\ InputTokens # <<>>)
    => /\ call.command = ToLowerCase(InputTokens[1])
       /\ call.args = Tail(InputTokens)
       /\ \A i \in 1..Len(call.args) : call.args[i] # <<>>

\* C19: the messages chat sends to the endpoint are the caller's messages
\* in their order, with one message of role system and the system prompt as
\* content in front when the system prompt is not empty, and with nothing
\* in front when it is empty.
C19_SystemPromptFirst ==
    (ClientCall /\ call.fetchLog # <<>>)
    => /\ Len(call.fetchLog) = 1
       /\ call.fetchLog[1].messages =
            IF call.system = <<>> THEN call.history
            ELSE <<[role |-> "system", content |-> call.system]>> \o call.history

C19_Witness ==
    /\ call.origin = "chat" /\ call.pc = "fetch"
    /\ call.system # <<>>
    /\ Len(call.history) = 2
    /\ Len(call.fetchLog[1].messages) = 3
    /\ call.fetchLog[1].messages[1].role = "system"

\* The detail of a response that is not ok: the message field of the error
\* payload or the payload itself when the body parses, the raw text of the
\* body when it does not.
ResponseDetail == call.resp.detail

\* C20: on every response that is not ok chat fails with an error that
\* carries the status code of the response and the detail: the message field
\* of the error payload when the body parses, the raw text of the body when
\* it does not.
C20_HttpErrorCarriesStatusAndDetail ==
    (ClientCall /\ call.pc = "done" /\ call.resp.t = "http")
    => /\ call.result.kind = "throw"
       /\ Includes(call.result.val, <<call.resp.status>>)
       /\ Includes(call.result.val, ResponseDetail)

\* C21: a call of chat with a signal of the caller hands that signal to
\* fetch and sets no timer; a call without one sets exactly one timer, whose
\* controller's signal is the one handed to fetch, and the timer is cleared
\* when the call is over, whether it returned or threw.
C21_TimerOnlyWithoutCallerSignal ==
    (ClientCall /\ call.fetchLog # <<>>)
    => /\ Len(call.fetchLog) = 1
       /\ call.pc \in {"fetch", "done"}
       /\ IF call.signal
          THEN /\ call.fetchLog[1].signal = "caller"
               /\ call.timers = 0
               /\ call.timer = "none"
          ELSE /\ call.fetchLog[1].signal = "internal"
               /\ call.timers = 1
               /\ call.pc = "fetch" => call.timer = "armed"
               /\ call.pc = "done" => call.timer = "cleared"

C21_Witness ==
    /\ ClientCall /\ call.pc = "done"
    /\ ~call.signal
    /\ call.resp.t = "abort"
    /\ call.result.kind = "throw"
    /\ call.timers = 1 /\ call.timer = "cleared"

\* C22: every step that changes the conversation history (an append or a
\* clear) or the prompt style leaves under the key of what changed the new
\* value; once the window is mounted the store holds the history and the
\* style of the window; the store is read by the mount only, once.
C22_StoreFollowsState ==
    /\ [][/\ messages' # messages => stored'.messages = Stringify(messages')
          /\ promptStyle' # promptStyle => stored'.style = promptStyle'
          /\ mount.pc # "render" => mount'.reads = mount.reads]_vars
    /\ [](mount.pc = "mounted"
            => /\ stored = [messages |-> Stringify(messages), style |-> promptStyle]
               /\ Parse(stored.messages) = messages)
    /\ [](mount.reads <= 1)

C22_Witness ==
    /\ mount.pc = "mounted"
    /\ Len(messages) = 3
    /\ messages[3].role = "assistant"
    /\ promptStyle = "Creative"
    /\ stored = [messages |-> Stringify(messages), style |-> "Creative"]

\* C23: every assistant message of the history comes right after a user
\* message, so the history does not begin with an assistant message, Clear
\* and Help during a turn included.
C23_AssistantFollowsUser ==
    \A i \in 1..Len(messages) :
        messages[i].role = "assistant" => (i > 1 /\ messages[i - 1].role = "user")

\* C24: every turn that sets the busy flag clears it in the end, when every
\* call of the Model Client returns or fails.
C24_BusyFlagCleared == loading ~> ~loading

\* The text is empty or holds white space only.
Blank(text) == \A i \in 1..Len(text) : text[i] \in WhiteSpace \cup {"\n\n"}

\* C25: a text runCommandOrChat returns is never empty or blank, whatever
\* the path (chat, a command's response, a command's error, the clipboard
\* summary), so no assistant message of the history has blank content.
C25_NoBlankText ==
    /\ (call.origin \in {"router", "submit"} /\ call.pc = "done"
            /\ call.result.kind = "text")
         => ~Blank(call.result.val)
    /\ \A i \in 1..Len(messages) :
           messages[i].role = "assistant" => ~Blank(messages[i].content)

C25_Witness ==
    /\ RouterAt({"done"})
    /\ ~Sigil
    /\ call.resp = NetOk(ContentString(<<" ", "o", "k", "\n">>))
    /\ call.result.kind = "text"
    /\ call.result.val = <<"o", "k">>

\* C26: a submission with empty or blank input, or one that arrives while
\* the busy flag is set, is not taken as a turn and changes nothing: no
\* message is appended, runCommandOrChat is not called, and the input text,
\* the busy flag and the error state stay as they are.
C26_RejectedSubmissionChangesNothing ==
    [][(AllWhiteSpace(inputText) \/ loading)
        => /\ ~(\E o \in OpenOutcomes : Submit(o))
           /\ SubmitRejected
                => UNCHANGED <<messages, call, inputText, loading, error>>]_vars

C26_Witness ==
    /\ loading
    /\ inputText = Chars("hi")
    /\ error = Null
    /\ ENABLED SubmitRejected
    /\ ~ENABLED (\E o \in OpenOutcomes : Submit(o))

\* The mount found a history that is not empty in the store.
HistoryStored ==
    mount.before.messages.t = "string" /\ Len(mount.before.messages.items) > 0

\* C27: while the window starts the stored conversation is not overwritten
\* with another value: when a history that is not empty was stored, the
\* store holds no empty list before the loaded history is written back.
C27_StoreKeptDuringStartup ==
    (mount.pc # "mounted" /\ HistoryStored)
    => /\ stored.messages # Stringify(<<>>)
       /\ stored.messages = mount.before.messages

\* The render that ends the mount makes the stored history the history of
\* the window and writes it back.
StartupLoadsHistory ==
    [][(mount.pc = "savedStyle" /\ mount'.pc = "mounted"
            /\ mount.before.messages.t = "string")
        => /\ messages' = Parse(mount.before.messages)
           /\ stored'.messages = mount.before.messages]_vars

=============================================================================
